---- MODULE Spec2Model ----
(***************************************************************************)
(* Model of machinelearning::tools::logger (src/tools/logger.hpp): the     *)
(* severity filter, the singleton accessor, the mutex-guarded file writer  *)
(* and, for the CLUSTER build, the MPI listener protocol.                  *)
(*                                                                         *)
(* One logger object per process (rank); every per-object field is a       *)
(* function of the rank.  Threads are numbered: the user threads           *)
(* 1..NUser (thread t runs on rank (t-1) % MaxProcs) and the listener      *)
(* threads NUser+1..NThreads, which do not exist ("unborn") until          *)
(* startListener spawns them.                                              *)
(***************************************************************************)
EXTENDS Integers, Sequences, FiniteSets, TLC

VARIABLES
    size,                \* p_mpi.size(): number of processes of the job
    fs_ok,               \* per rank: whether m_filename can be opened
    m_instance,          \* per rank: logger::m_instance (0 = NULL)
    constructed,         \* per rank: number of logger objects constructed
    m_logstate,          \* per rank: logger::m_logstate
    m_file,              \* per rank: state of the ofstream m_file
    m_file_buf,          \* per rank: stream buffer of m_file (chunks)
    file,                \* per rank: contents of the log file (chunks)
    m_muxwriter,         \* per rank: holder of m_muxwriter (0 = free)
    m_muxlistener,       \* per rank: holder of m_muxlistener
    m_muxfinalize,       \* per rank: holder of m_muxfinalize
    m_listenerrunnging,  \* per rank: logger::m_listenerrunnging
    barCount,            \* per rank: barriers entered on the communicator
    chan,                \* per sender rank: messages sent, not yet arrived
    inbox,               \* per sender rank: messages arrived at rank 0
    pc,                  \* per thread: position in the code
    op,                  \* per thread: the call it is in / made last
    calls,               \* per thread: number of calls made
    p_state,             \* per thread: argument p_state of that call
    p_val,               \* per thread: argument p_val of that call
    l_stream,            \* per thread: local l_stream (p_data in write2file)
    l_status,            \* per thread: source rank of the probed message
    ticket,              \* per thread: which barrier of its rank it is in
    ret,                 \* per thread: how its last call ended
    inst,                \* per thread: pointer returned by getInstance
    got,                 \* per thread: values returned by the getters
    owner                \* per listener thread: rank that spawned it

vars == << size, fs_ok, m_instance, constructed, m_logstate, m_file,
           m_file_buf, file, m_muxwriter, m_muxlistener, m_muxfinalize,
           m_listenerrunnging, barCount, chan, inbox, pc, op, calls,
           p_state, p_val, l_stream, l_status, ticket, ret, inst, got,
           owner >>

procVars == << m_instance, constructed >>
sinkVars == << m_file, m_file_buf, file, m_muxwriter >>
lsnVars  == << m_muxlistener, m_muxfinalize, m_listenerrunnging, owner >>
mpiVars  == << barCount, chan, inbox >>
locVars  == << pc, op, p_state, p_val, l_stream, ticket, ret >>

----------------------------------------------------------------------------
(* Bounds of the model *)

MaxProcs == 2        \* processes of the largest job
MaxCalls == 2        \* calls one user thread makes
MaxListeners == 2    \* listener threads that can be spawned
MaxSends == 1        \* writes of one process in the distributed job

(* enum logstate *)
none == 0
error == 1
warn == 2
info == 3

NULL == 0            \* m_instance before the first getInstance
NoThread == 0        \* a mutex nobody holds

Levels == {none, error, warn, info}
Procs == 0 .. (MaxProcs - 1)
Ranks == 0 .. (size - 1)
NUser == 2 * MaxProcs
NThreads == NUser + MaxListeners
Users == 1 .. NUser
Listeners == (NUser + 1) .. NThreads
Threads == 1 .. NThreads

Main(r) == r + 1                 \* the main thread of rank r
Second(r) == MaxProcs + r + 1    \* a second user thread of rank r

rankOf(t) == IF t \in Users THEN (t - 1) % MaxProcs ELSE owner[t]

(* The text of the k-th call of thread t: distinct for distinct calls. *)
Msg(t, k) == "m" \o ToString(t) \o "." \o ToString(k)

NL == "\n"

----------------------------------------------------------------------------
(* Pure functions *)

(* logger::write, line 200: the condition under which the call returns
   without writing. *)
write_rejectsNoneIsOpen(thr, lvl) == (lvl = none) \/ (thr # none /\ lvl > thr)
write_rejectsNoLevelNone(thr, lvl) == (thr = none) \/ (lvl > thr)
write_rejectsAboveThreshold(thr, lvl) == (thr = none) \/ (lvl = none)
write_rejects(thr, lvl) == (thr = none) \/ (lvl = none) \/ (lvl > thr)

(* logger::write (mpi), line 288: the same test, written a second time. *)
write_mpi_rejectsNoThreshold(thr, lvl) == (lvl = none)
write_mpi_rejects(thr, lvl) == (thr = none) \/ (lvl = none) \/ (lvl > thr)

(* logger::logformat: the level label and the value appended to the stream;
   threw is TRUE where the switch reaches its default. *)
logformatOneSpace(lvl, val, stream) ==
    CASE lvl = info  -> [threw |-> FALSE, str |-> stream \o "[info] " \o val]
      [] lvl = warn  -> [threw |-> FALSE, str |-> stream \o "[warn] " \o val]
      [] lvl = error -> [threw |-> FALSE, str |-> stream \o "[error] " \o val]
      [] OTHER       -> [threw |-> TRUE,  str |-> stream]
logformat(lvl, val, stream) ==
    CASE lvl = info  -> [threw |-> FALSE, str |-> stream \o "[info]       " \o val]
      [] lvl = warn  -> [threw |-> FALSE, str |-> stream \o "[warn]       " \o val]
      [] lvl = error -> [threw |-> FALSE, str |-> stream \o "[error]      " \o val]
      [] OTHER       -> [threw |-> TRUE,  str |-> stream]

(* "CPU " << p_mpi.rank() << " - " *)
cpuPrefix(r) == "CPU " \o ToString(r) \o " - "

(* The lines of a file: the chunks between newlines, each joined to one
   string; chunks after the last newline are an unfinished line. *)
RECURSIVE SplitLines(_, _, _)
SplitLines(chunks, cur, acc) ==
    IF chunks = << >> THEN [lines |-> acc, rest |-> cur]
    ELSE IF Head(chunks) = NL
         THEN SplitLines(Tail(chunks), "", Append(acc, cur))
         ELSE SplitLines(Tail(chunks), cur \o Head(chunks), acc)

Lines(chunks) == SplitLines(chunks, "", << >>).lines
Unfinished(chunks) == SplitLines(chunks, "", << >>).rest

RECURSIVE SumOver(_, _)
SumOver(f, S) ==
    IF S = {} THEN 0
    ELSE LET x == CHOOSE y \in S : TRUE IN f[x] + SumOver(f, S \ {x})

----------------------------------------------------------------------------
(* Initial states *)

(* The fields logger::logger (lines 124-132) sets, other than m_logstate,
   for every process, with no message under way and every thread outside
   the logger. *)
InitFields ==
    /\ m_file = [p \in Procs |-> "closed"]
    /\ m_file_buf = [p \in Procs |-> << >>]
    /\ file = [p \in Procs |-> << >>]
    /\ m_muxwriter = [p \in Procs |-> NoThread]
    /\ m_muxlistener = [p \in Procs |-> NoThread]
    /\ m_muxfinalize = [p \in Procs |-> NoThread]
    /\ m_listenerrunnging = [p \in Procs |-> FALSE]
    /\ barCount = [p \in Procs |-> 0]
    /\ chan = [p \in Procs |-> << >>]
    /\ inbox = [p \in Procs |-> << >>]
    /\ pc = [t \in Threads |-> IF t \in Users THEN "idle" ELSE "unborn"]
    /\ op = [t \in Threads |-> "none"]
    /\ calls = [t \in Threads |-> 0]
    /\ p_state = [t \in Threads |-> none]
    /\ p_val = [t \in Threads |-> ""]
    /\ l_stream = [t \in Threads |-> ""]
    /\ l_status = [t \in Threads |-> 0]
    /\ ticket = [t \in Threads |-> 0]
    /\ ret = [t \in Threads |-> "none"]
    /\ inst = [t \in Threads |-> NULL]
    /\ got = [t \in Threads |-> [level |-> none, path |-> ""]]
    /\ owner = [t \in Listeners |-> 0]

(* The same, on a file system where every process can open its log file. *)
InitCommon ==
    /\ InitFields
    /\ fs_ok = [p \in Procs |-> TRUE]

(* static logger* m_instance = NULL: no logger constructed yet. *)
InitNoInstance ==
    /\ m_instance = [p \in Procs |-> NULL]
    /\ constructed = [p \in Procs |-> 0]

(* The state after the first getInstance() of every process returned. *)
InitInstance ==
    /\ m_instance = [p \in Procs |-> 1]
    /\ constructed = [p \in Procs |-> 1]

(* m_logstate(none), line 125 *)
InitThreshold == m_logstate = [p \in Procs |-> none]

----------------------------------------------------------------------------
(* A call returns: the thread is outside the logger again, its arguments
   and locals are gone, r says how the call ended ("ok", or "runtime" for
   an exception::runtime thrown to the caller). *)
Return(t, r) ==
    /\ pc' = [pc EXCEPT ![t] = "idle"]
    /\ op' = [op EXCEPT ![t] = "none"]
    /\ p_state' = [p_state EXCEPT ![t] = none]
    /\ p_val' = [p_val EXCEPT ![t] = ""]
    /\ l_stream' = [l_stream EXCEPT ![t] = ""]
    /\ ticket' = [ticket EXCEPT ![t] = 0]
    /\ ret' = [ret EXCEPT ![t] = r]

(* A user thread enters a member function with its arguments. *)
Call(t, name, lvl, val, to) ==
    /\ pc[t] = "idle"
    /\ calls' = [calls EXCEPT ![t] = @ + 1]
    /\ op' = [op EXCEPT ![t] = name]
    /\ p_state' = [p_state EXCEPT ![t] = lvl]
    /\ p_val' = [p_val EXCEPT ![t] = val]
    /\ pc' = [pc EXCEPT ![t] = to]
    /\ ret' = [ret EXCEPT ![t] = "none"]
    /\ UNCHANGED << l_stream, ticket >>

(* The calls a thread may still make. *)
Budget(t) == calls[t] < MaxCalls

(* The thread moves on inside its call. *)
Goto(t, to) ==
    /\ pc' = [pc EXCEPT ![t] = to]
    /\ UNCHANGED << op, p_state, p_val, ticket, ret >>

----------------------------------------------------------------------------
(* logger::getInstance, lines 159-165 *)

getInstance_call(t) ==
    /\ Budget(t)
    /\ Call(t, "getInstance", none, "", "gi_check")
    /\ UNCHANGED << size, fs_ok, procVars, m_logstate, sinkVars, lsnVars,
                    mpiVars, l_status, inst, got >>

(* line 161: if (!m_instance) *)
getInstance_check(t) ==
    /\ pc[t] = "gi_check"
    /\ Goto(t, IF m_instance[rankOf(t)] = NULL THEN "gi_new" ELSE "gi_return")
    /\ UNCHANGED << size, fs_ok, procVars, m_logstate, sinkVars, lsnVars,
                    mpiVars, calls, l_stream, l_status, inst, got >>

(* line 162: m_instance = new logger() *)
getInstance_new(t) ==
    /\ pc[t] = "gi_new"
    /\ constructed' = [constructed EXCEPT ![rankOf(t)] = @ + 1]
    /\ m_instance' = [m_instance EXCEPT ![rankOf(t)] = constructed'[rankOf(t)]]
    /\ Goto(t, "gi_return")
    /\ UNCHANGED << size, fs_ok, m_logstate, sinkVars, lsnVars, mpiVars,
                    calls, l_stream, l_status, inst, got >>

(* line 164: return m_instance *)
getInstance_return(t) ==
    /\ pc[t] = "gi_return"
    /\ inst' = [inst EXCEPT ![t] = m_instance[rankOf(t)]]
    /\ Return(t, "ok")
    /\ UNCHANGED << size, fs_ok, procVars, m_logstate, sinkVars, lsnVars,
                    mpiVars, calls, l_status, got >>

getInstance(t) ==
    \/ getInstance_call(t)
    \/ getInstance_check(t)
    \/ getInstance_new(t)
    \/ getInstance_return(t)

----------------------------------------------------------------------------
(* logger::setLevel, lines 180-183 *)

setLevel_call(t, lvl) ==
    /\ Call(t, "setLevel", lvl, "", "sl_assign")
    /\ UNCHANGED << size, fs_ok, procVars, m_logstate, sinkVars, lsnVars,
                    mpiVars, l_status, inst, got >>

(* line 182: m_logstate = p_state *)
setLevel_assignIgnoresNone(t) ==
    /\ pc[t] = "sl_assign"
    /\ m_logstate' = [m_logstate EXCEPT ![rankOf(t)] =
                         IF p_state[t] = none THEN @ ELSE p_state[t]]
    /\ Return(t, "ok")
    /\ UNCHANGED << size, fs_ok, procVars, sinkVars, lsnVars, mpiVars,
                    calls, l_status, inst, got >>

setLevel_assign(t) ==
    /\ pc[t] = "sl_assign"
    /\ m_logstate' = [m_logstate EXCEPT ![rankOf(t)] = p_state[t]]
    /\ Return(t, "ok")
    /\ UNCHANGED << size, fs_ok, procVars, sinkVars, lsnVars, mpiVars,
                    calls, l_status, inst, got >>

----------------------------------------------------------------------------
(* logger::getLevel, lines 189-192, and logger::getFilename, lines 171-174 *)

(* static std::string m_filename, line 89: one path per process, which no
   member function assigns. *)
m_filename(p) == "log" \o ToString(p)

getLevel_call(t) ==
    /\ Call(t, "getLevel", none, "", "gl_return")
    /\ UNCHANGED << size, fs_ok, procVars, m_logstate, sinkVars, lsnVars,
                    mpiVars, l_status, inst, got >>

(* line 191: return m_logstate *)
getLevel_return(t) ==
    /\ pc[t] = "gl_return"
    /\ got' = [got EXCEPT ![t].level = m_logstate[rankOf(t)]]
    /\ Return(t, "ok")
    /\ UNCHANGED << size, fs_ok, procVars, m_logstate, sinkVars, lsnVars,
                    mpiVars, calls, l_status, inst >>

getFilename_call(t) ==
    /\ Call(t, "getFilename", none, "", "gf_return")
    /\ UNCHANGED << size, fs_ok, procVars, m_logstate, sinkVars, lsnVars,
                    mpiVars, l_status, inst, got >>

(* line 173: return m_filename *)
getFilename_return(t) ==
    /\ pc[t] = "gf_return"
    /\ got' = [got EXCEPT ![t].path = m_filename(rankOf(t))]
    /\ Return(t, "ok")
    /\ UNCHANGED << size, fs_ok, procVars, m_logstate, sinkVars, lsnVars,
                    mpiVars, calls, l_status, inst >>

----------------------------------------------------------------------------
(* logger::write (local), lines 199-207 *)

write_call(t, lvl, val) ==
    /\ Call(t, "write", lvl, val, "wr_filter")
    /\ UNCHANGED << size, fs_ok, procVars, m_logstate, sinkVars, lsnVars,
                    mpiVars, l_status, inst, got >>

(* lines 200-205: the filter; a message that passes is formatted into
   l_stream behind "local - " and goes to write2file. *)
write_filter(t) ==
    /\ pc[t] = "wr_filter"
    /\ IF write_rejects(m_logstate[rankOf(t)], p_state[t])
       THEN Return(t, "ok")
       ELSE LET f == logformat(p_state[t], p_val[t], "local - ") IN
            IF f.threw
            THEN Return(t, "runtime")
            ELSE /\ l_stream' = [l_stream EXCEPT ![t] = f.str]
                 /\ Goto(t, "w2f_enter")
    /\ UNCHANGED << size, fs_ok, procVars, m_logstate, sinkVars, lsnVars,
                    mpiVars, calls, l_status, inst, got >>

----------------------------------------------------------------------------
(* logger::write2file, lines 230-243, run by a user thread inside write or
   by a listener thread inside listener. *)

(* write2file returns: a user thread leaves write, a listener thread is
   back in its inner loop (line 312). *)
Write2fileReturnsToYield(t) ==
    IF t \in Users
    THEN Return(t, "ok")
    ELSE /\ l_stream' = [l_stream EXCEPT ![t] = ""]
         /\ Goto(t, "ls_yield")

Write2fileReturns(t) ==
    IF t \in Users
    THEN Return(t, "ok")
    ELSE /\ l_stream' = [l_stream EXCEPT ![t] = ""]
         /\ Goto(t, "ls_probe")

(* lines 232-236: an empty stream returns; otherwise the lock_guard takes
   m_muxwriter, waiting while another thread holds it. *)
write2file_enterNoLock(t) ==
    /\ pc[t] = "w2f_enter"
    /\ IF l_stream[t] = ""
       THEN /\ Write2fileReturns(t)
            /\ UNCHANGED m_muxwriter
       ELSE /\ m_muxwriter' = [m_muxwriter EXCEPT ![rankOf(t)] = t]
            /\ Goto(t, "w2f_open")
            /\ UNCHANGED l_stream
    /\ UNCHANGED << size, fs_ok, procVars, m_logstate, m_file, m_file_buf,
                    file, lsnVars, mpiVars, calls, l_status, inst, got >>

write2file_enter(t) ==
    /\ pc[t] = "w2f_enter"
    /\ IF l_stream[t] = ""
       THEN /\ Write2fileReturns(t)
            /\ UNCHANGED m_muxwriter
       ELSE /\ m_muxwriter[rankOf(t)] = NoThread
            /\ m_muxwriter' = [m_muxwriter EXCEPT ![rankOf(t)] = t]
            /\ Goto(t, "w2f_open")
            /\ UNCHANGED l_stream
    /\ UNCHANGED << size, fs_ok, procVars, m_logstate, m_file, m_file_buf,
                    file, lsnVars, mpiVars, calls, l_status, inst, got >>

(* lines 238-239: open in append mode unless open already; an open that
   fails leaves the stream closed with its failbit set. *)
write2file_open(t) ==
    /\ pc[t] = "w2f_open"
    /\ m_file' = [m_file EXCEPT ![rankOf(t)] =
                     IF @ = "open" THEN "open"
                     ELSE IF fs_ok[rankOf(t)] THEN "open" ELSE "failed"]
    /\ Goto(t, "w2f_put")
    /\ UNCHANGED << size, fs_ok, procVars, m_logstate, m_file_buf, file,
                    m_muxwriter, lsnVars, mpiVars, calls, l_stream,
                    l_status, inst, got >>

(* line 241, m_file << p_data.str(): into the stream buffer, unless the
   stream has failed. *)
write2file_put(t) ==
    /\ pc[t] = "w2f_put"
    /\ m_file_buf' = [m_file_buf EXCEPT ![rankOf(t)] =
                         IF m_file[rankOf(t)] = "open"
                         THEN Append(@, l_stream[t]) ELSE @]
    /\ Goto(t, "w2f_endl")
    /\ UNCHANGED << size, fs_ok, procVars, m_logstate, m_file, file,
                    m_muxwriter, lsnVars, mpiVars, calls, l_stream,
                    l_status, inst, got >>

(* line 241, << "\n" *)
write2file_endl(t) ==
    /\ pc[t] = "w2f_endl"
    /\ m_file_buf' = [m_file_buf EXCEPT ![rankOf(t)] =
                         IF m_file[rankOf(t)] = "open"
                         THEN Append(@, NL) ELSE @]
    /\ Goto(t, "w2f_flush")
    /\ UNCHANGED << size, fs_ok, procVars, m_logstate, m_file, file,
                    m_muxwriter, lsnVars, mpiVars, calls, l_stream,
                    l_status, inst, got >>

(* line 242, m_file.flush(): the buffer goes to the end of the file. *)
write2file_flushKeepsBuffer(t) ==
    /\ pc[t] = "w2f_flush"
    /\ file' = [file EXCEPT ![rankOf(t)] = @ \o m_file_buf[rankOf(t)]]
    /\ Goto(t, "w2f_return")
    /\ UNCHANGED << size, fs_ok, procVars, m_logstate, m_file, m_file_buf,
                    m_muxwriter, lsnVars, mpiVars, calls, l_stream, l_status,
                    inst, got >>

write2file_flush(t) ==
    /\ pc[t] = "w2f_flush"
    /\ file' = [file EXCEPT ![rankOf(t)] = @ \o m_file_buf[rankOf(t)]]
    /\ m_file_buf' = [m_file_buf EXCEPT ![rankOf(t)] = << >>]
    /\ Goto(t, "w2f_return")
    /\ UNCHANGED << size, fs_ok, procVars, m_logstate, m_file, m_muxwriter,
                    lsnVars, mpiVars, calls, l_stream, l_status, inst, got >>

(* line 243: the lock_guard's destructor releases m_muxwriter. *)
write2file_returnCloses(t) ==
    /\ pc[t] = "w2f_return"
    /\ m_muxwriter' = [m_muxwriter EXCEPT ![rankOf(t)] = NoThread]
    /\ m_file' = [m_file EXCEPT ![rankOf(t)] = "closed"]
    /\ Write2fileReturns(t)
    /\ UNCHANGED << size, fs_ok, procVars, m_logstate, m_file_buf, file,
                    lsnVars, mpiVars, calls, l_status, inst, got >>

write2file_returnKeepsLock(t) ==
    /\ pc[t] = "w2f_return"
    /\ Write2fileReturns(t)
    /\ UNCHANGED << size, fs_ok, procVars, m_logstate, sinkVars, lsnVars,
                    mpiVars, calls, l_status, inst, got >>

write2file_return(t) ==
    /\ pc[t] = "w2f_return"
    /\ m_muxwriter' = [m_muxwriter EXCEPT ![rankOf(t)] = NoThread]
    /\ Write2fileReturns(t)
    /\ UNCHANGED << size, fs_ok, procVars, m_logstate, m_file, m_file_buf,
                    file, lsnVars, mpiVars, calls, l_status, inst, got >>

write2file(t) ==
    \/ write2file_enter(t)
    \/ write2file_open(t)
    \/ write2file_put(t)
    \/ write2file_endl(t)
    \/ write2file_flush(t)
    \/ write2file_return(t)

----------------------------------------------------------------------------
(* mpi::communicator::barrier: the k-th barrier a rank enters completes
   when every rank of the communicator has entered its k-th barrier. *)

BarrierEnter(t) ==
    /\ barCount' = [barCount EXCEPT ![rankOf(t)] = @ + 1]
    /\ ticket' = [ticket EXCEPT ![t] = barCount'[rankOf(t)]]

BarrierDone(t) == \A q \in Ranks : barCount[q] >= ticket[t]

(* Listener threads that exist: spawned and not yet returned from
   logger::listener. *)
Alive(l) == pc[l] \notin {"unborn", "dead"}
AliveOn(p) == {l \in Listeners : Alive(l) /\ owner[l] = p}

(* The calls of startListener under way that may still spawn a thread. *)
Starting == {u \in Users : op[u] = "startListener"}
Unborn == {l \in Listeners : pc[l] = "unborn"}

----------------------------------------------------------------------------
(* logger::startListener, lines 253-264 *)

(* line 255: p_mpi.barrier() is entered *)
startListener_call(t) ==
    /\ Cardinality(Starting) < Cardinality(Unborn)
    /\ Call(t, "startListener", none, "", "st_barrier")
    /\ UNCHANGED << size, fs_ok, procVars, m_logstate, sinkVars, lsnVars,
                    mpiVars, l_status, inst, got >>

startListener_barrier(t) ==
    /\ pc[t] = "st_barrier"
    /\ BarrierEnter(t)
    /\ pc' = [pc EXCEPT ![t] = "st_check"]
    /\ UNCHANGED << size, fs_ok, procVars, m_logstate, sinkVars, lsnVars,
                    chan, inbox, op, calls, p_state, p_val, l_stream,
                    l_status, ret, inst, got >>

(* lines 255-257: the barrier completes, then the test that makes the call
   a no-op *)
startListener_skipsNoRank(t) ==
    (size = 1) \/ m_listenerrunnging[rankOf(t)]
startListener_skipsNoRunning(t) ==
    (rankOf(t) # 0) \/ (size = 1)
startListener_skips(t) ==
    (rankOf(t) # 0) \/ (size = 1) \/ m_listenerrunnging[rankOf(t)]

startListener_checkNoBarrier(t) ==
    /\ pc[t] = "st_check"
    /\ IF startListener_skips(t)
       THEN Return(t, "ok")
       ELSE /\ Goto(t, "st_lock")
            /\ UNCHANGED l_stream
    /\ UNCHANGED << size, fs_ok, procVars, m_logstate, sinkVars, lsnVars,
                    mpiVars, calls, l_status, inst, got >>

startListener_check(t) ==
    /\ pc[t] = "st_check"
    /\ BarrierDone(t)
    /\ IF startListener_skips(t)
       THEN Return(t, "ok")
       ELSE /\ Goto(t, "st_lock")
            /\ UNCHANGED l_stream
    /\ UNCHANGED << size, fs_ok, procVars, m_logstate, sinkVars, lsnVars,
                    mpiVars, calls, l_status, inst, got >>

(* line 260: lock_guard on m_muxlistener *)
startListener_lock(t) ==
    /\ pc[t] = "st_lock"
    /\ m_muxlistener[rankOf(t)] = NoThread
    /\ m_muxlistener' = [m_muxlistener EXCEPT ![rankOf(t)] = t]
    /\ Goto(t, "st_set")
    /\ UNCHANGED << size, fs_ok, procVars, m_logstate, sinkVars,
                    m_muxfinalize, m_listenerrunnging, owner, mpiVars,
                    calls, l_stream, l_status, inst, got >>

(* line 262: m_listenerrunnging = true *)
startListener_set(t) ==
    /\ pc[t] = "st_set"
    /\ m_listenerrunnging' = [m_listenerrunnging EXCEPT ![rankOf(t)] = TRUE]
    /\ Goto(t, "st_spawn")
    /\ UNCHANGED << size, fs_ok, procVars, m_logstate, sinkVars,
                    m_muxlistener, m_muxfinalize, owner, mpiVars, calls,
                    l_stream, l_status, inst, got >>

(* line 263: boost::thread l_thread(...): a new thread runs
   logger::listener on this logger *)
startListener_spawn(t) ==
    /\ pc[t] = "st_spawn"
    /\ Unborn # {}
    /\ LET l == CHOOSE x \in Unborn : \A y \in Unborn : x <= y IN
          /\ pc' = [pc EXCEPT ![t] = "st_return", ![l] = "ls_lock"]
          /\ owner' = [owner EXCEPT ![l] = rankOf(t)]
    /\ UNCHANGED << size, fs_ok, procVars, m_logstate, sinkVars,
                    m_muxlistener, m_muxfinalize, m_listenerrunnging,
                    mpiVars, op, calls, p_state, p_val, l_stream, l_status,
                    ticket, ret, inst, got >>

(* line 264: l_thread is detached, the lock_guard releases m_muxlistener *)
startListener_return(t) ==
    /\ pc[t] = "st_return"
    /\ m_muxlistener' = [m_muxlistener EXCEPT ![rankOf(t)] = NoThread]
    /\ Return(t, "ok")
    /\ UNCHANGED << size, fs_ok, procVars, m_logstate, sinkVars,
                    m_muxfinalize, m_listenerrunnging, owner, mpiVars,
                    calls, l_status, inst, got >>

startListener(t) ==
    \/ startListener_barrier(t)
    \/ startListener_check(t)
    \/ startListener_lock(t)
    \/ startListener_set(t)
    \/ startListener_spawn(t)
    \/ startListener_return(t)

----------------------------------------------------------------------------
(* logger::shutdownListener, lines 270-277 *)

shutdownListener_call(t) ==
    /\ Call(t, "shutdownListener", none, "", "sd_clear")
    /\ UNCHANGED << size, fs_ok, procVars, m_logstate, sinkVars, lsnVars,
                    mpiVars, l_status, inst, got >>

(* line 271: m_listenerrunnging = false *)
shutdownListener_clear(t) ==
    /\ pc[t] = "sd_clear"
    /\ m_listenerrunnging' = [m_listenerrunnging EXCEPT ![rankOf(t)] = FALSE]
    /\ Goto(t, "sd_barrier")
    /\ UNCHANGED << size, fs_ok, procVars, m_logstate, sinkVars,
                    m_muxlistener, m_muxfinalize, owner, mpiVars, calls,
                    l_stream, l_status, inst, got >>

(* line 272: p_mpi.barrier() is entered *)
shutdownListener_barrier(t) ==
    /\ pc[t] = "sd_barrier"
    /\ BarrierEnter(t)
    /\ pc' = [pc EXCEPT ![t] = "sd_check"]
    /\ UNCHANGED << size, fs_ok, procVars, m_logstate, sinkVars, lsnVars,
                    chan, inbox, op, calls, p_state, p_val, l_stream,
                    l_status, ret, inst, got >>

(* lines 272-275: the barrier completes; only rank 0 goes on to the lock *)
shutdownListener_check(t) ==
    /\ pc[t] = "sd_check"
    /\ BarrierDone(t)
    /\ IF rankOf(t) = 0
       THEN /\ Goto(t, "sd_lock")
            /\ UNCHANGED l_stream
       ELSE Return(t, "ok")
    /\ UNCHANGED << size, fs_ok, procVars, m_logstate, sinkVars, lsnVars,
                    mpiVars, calls, l_status, inst, got >>

(* line 276: the lock_guard takes m_muxfinalize, waiting while a listener
   thread holds it *)
shutdownListener_lock(t) ==
    /\ pc[t] = "sd_lock"
    /\ m_muxfinalize[rankOf(t)] = NoThread
    /\ m_muxfinalize' = [m_muxfinalize EXCEPT ![rankOf(t)] = t]
    /\ Goto(t, "sd_return")
    /\ UNCHANGED << size, fs_ok, procVars, m_logstate, sinkVars,
                    m_muxlistener, m_listenerrunnging, owner, mpiVars,
                    calls, l_stream, l_status, inst, got >>

(* lines 276-277: and releases it at once *)
shutdownListener_return(t) ==
    /\ pc[t] = "sd_return"
    /\ m_muxfinalize' = [m_muxfinalize EXCEPT ![rankOf(t)] = NoThread]
    /\ Return(t, "ok")
    /\ UNCHANGED << size, fs_ok, procVars, m_logstate, sinkVars,
                    m_muxlistener, m_listenerrunnging, owner, mpiVars,
                    calls, l_status, inst, got >>

shutdownListener(t) ==
    \/ shutdownListener_clear(t)
    \/ shutdownListener_barrier(t)
    \/ shutdownListener_check(t)
    \/ shutdownListener_lock(t)
    \/ shutdownListener_return(t)

----------------------------------------------------------------------------
(* logger::write (mpi), lines 286-299 *)

write_mpi_call(t, lvl, val) ==
    /\ Call(t, "write_mpi", lvl, val, "wm_filter")
    /\ UNCHANGED << size, fs_ok, procVars, m_logstate, sinkVars, lsnVars,
                    mpiVars, l_status, inst, got >>

(* lines 288-296: the filter; a message that passes is formatted behind
   "CPU <rank> - "; rank 0 goes to write2file, the others to isend. *)
write_mpi_filter(t) ==
    /\ pc[t] = "wm_filter"
    /\ IF write_mpi_rejects(m_logstate[rankOf(t)], p_state[t])
       THEN Return(t, "ok")
       ELSE LET f == logformat(p_state[t], p_val[t], cpuPrefix(rankOf(t))) IN
            IF f.threw
            THEN Return(t, "runtime")
            ELSE /\ l_stream' = [l_stream EXCEPT ![t] = f.str]
                 /\ Goto(t, IF rankOf(t) = 0 THEN "w2f_enter" ELSE "wm_isend")
    /\ UNCHANGED << size, fs_ok, procVars, m_logstate, sinkVars, lsnVars,
                    mpiVars, calls, l_status, inst, got >>

(* line 298: p_mpi.isend(0, LOGGER_MPI_TAG, l_stream.str()); the request
   is dropped and the call returns *)
write_mpi_isendWaits(t) ==
    /\ pc[t] = "wm_isend"
    /\ AliveOn(0) # {}
    /\ chan' = [chan EXCEPT ![rankOf(t)] = Append(@, l_stream[t])]
    /\ Return(t, "ok")
    /\ UNCHANGED << size, fs_ok, procVars, m_logstate, sinkVars, lsnVars,
                    barCount, inbox, calls, l_status, inst, got >>

write_mpi_isend(t) ==
    /\ pc[t] = "wm_isend"
    /\ chan' = [chan EXCEPT ![rankOf(t)] = Append(@, l_stream[t])]
    /\ Return(t, "ok")
    /\ UNCHANGED << size, fs_ok, procVars, m_logstate, sinkVars, lsnVars,
                    barCount, inbox, calls, l_status, inst, got >>

(* The transport: the oldest message a rank has sent arrives at rank 0,
   where iprobe can see it (messages of one sender do not overtake). *)
deliver(r) ==
    /\ chan[r] # << >>
    /\ inbox' = [inbox EXCEPT ![r] = Append(@, Head(chan[r]))]
    /\ chan' = [chan EXCEPT ![r] = Tail(@)]
    /\ UNCHANGED << size, fs_ok, procVars, m_logstate, sinkVars, lsnVars,
                    barCount, locVars, calls, l_status, inst, got >>

----------------------------------------------------------------------------
(* logger::listener, lines 306-323, run by a listener thread l *)

(* The senders with a message iprobe(any_source, LOGGER_MPI_TAG) can
   match on rank p: every message is addressed to rank 0. *)
Pending(p) == IF p = 0 THEN {r \in Procs : inbox[r] # << >>} ELSE {}

(* line 308: lock_guard on m_muxfinalize *)
listener_lockNoWait(l) ==
    /\ pc[l] = "ls_lock"
    /\ m_muxfinalize' = [m_muxfinalize EXCEPT ![owner[l]] = l]
    /\ Goto(l, "ls_while")
    /\ UNCHANGED << size, fs_ok, procVars, m_logstate, sinkVars,
                    m_muxlistener, m_listenerrunnging, owner, mpiVars,
                    calls, l_stream, l_status, inst, got >>

listener_lock(l) ==
    /\ pc[l] = "ls_lock"
    /\ m_muxfinalize[owner[l]] = NoThread
    /\ m_muxfinalize' = [m_muxfinalize EXCEPT ![owner[l]] = l]
    /\ Goto(l, "ls_while")
    /\ UNCHANGED << size, fs_ok, procVars, m_logstate, sinkVars,
                    m_muxlistener, m_listenerrunnging, owner, mpiVars,
                    calls, l_stream, l_status, inst, got >>

(* line 310: while (m_listenerrunnging) *)
listener_whileTrue(l) ==
    /\ pc[l] = "ls_while"
    /\ Goto(l, "ls_probe")
    /\ UNCHANGED << size, fs_ok, procVars, m_logstate, sinkVars, lsnVars,
                    mpiVars, calls, l_stream, l_status, inst, got >>

listener_while(l) ==
    /\ pc[l] = "ls_while"
    /\ Goto(l, IF m_listenerrunnging[owner[l]] THEN "ls_probe" ELSE "ls_exit")
    /\ UNCHANGED << size, fs_ok, procVars, m_logstate, sinkVars, lsnVars,
                    mpiVars, calls, l_stream, l_status, inst, got >>

(* line 312: iprobe; with a message pending its source is kept in
   l_status, with none the inner loop ends *)
listener_probe(l) ==
    /\ pc[l] = "ls_probe"
    /\ IF Pending(owner[l]) # {}
       THEN \E r \in Pending(owner[l]) :
               /\ l_status' = [l_status EXCEPT ![l] = r]
               /\ Goto(l, "ls_recv")
       ELSE /\ Goto(l, "ls_yield")
            /\ UNCHANGED l_status
    /\ UNCHANGED << size, fs_ok, procVars, m_logstate, sinkVars, lsnVars,
                    mpiVars, calls, l_stream, inst, got >>

(* lines 313-318: recv from that source into l_str, l_stream << l_str,
   write2file(l_stream) *)
listener_recvFiltered(l) ==
    /\ pc[l] = "ls_recv"
    /\ inbox[l_status[l]] # << >>
    /\ l_stream' = [l_stream EXCEPT ![l] =
                       IF m_logstate[owner[l]] = info
                       THEN Head(inbox[l_status[l]]) ELSE ""]
    /\ inbox' = [inbox EXCEPT ![l_status[l]] = Tail(@)]
    /\ l_status' = [l_status EXCEPT ![l] = 0]
    /\ Goto(l, "w2f_enter")
    /\ UNCHANGED << size, fs_ok, procVars, m_logstate, sinkVars, lsnVars,
                    barCount, chan, calls, inst, got >>

listener_recv(l) ==
    /\ pc[l] = "ls_recv"
    /\ inbox[l_status[l]] # << >>
    /\ l_stream' = [l_stream EXCEPT ![l] = Head(inbox[l_status[l]])]
    /\ inbox' = [inbox EXCEPT ![l_status[l]] = Tail(@)]
    /\ l_status' = [l_status EXCEPT ![l] = 0]
    /\ Goto(l, "w2f_enter")
    /\ UNCHANGED << size, fs_ok, procVars, m_logstate, sinkVars, lsnVars,
                    barCount, chan, calls, inst, got >>

(* line 321: boost::this_thread::yield() *)
listener_yield(l) ==
    /\ pc[l] = "ls_yield"
    /\ Goto(l, "ls_while")
    /\ UNCHANGED << size, fs_ok, procVars, m_logstate, sinkVars, lsnVars,
                    mpiVars, calls, l_stream, l_status, inst, got >>

(* line 323: the function returns, the lock_guard releases m_muxfinalize
   and the thread ends *)
listener_exit(l) ==
    /\ pc[l] = "ls_exit"
    /\ m_muxfinalize' = [m_muxfinalize EXCEPT ![owner[l]] = NoThread]
    /\ Goto(l, "dead")
    /\ UNCHANGED << size, fs_ok, procVars, m_logstate, sinkVars,
                    m_muxlistener, m_listenerrunnging, owner, mpiVars,
                    calls, l_stream, l_status, inst, got >>

listener(l) ==
    \/ listener_lock(l)
    \/ listener_while(l)
    \/ listener_probe(l)
    \/ listener_recv(l)
    \/ write2file(l)
    \/ listener_yield(l)
    \/ listener_exit(l)

----------------------------------------------------------------------------
(* Specifications *)

(* Concurrent first calls of getInstance: the threads of one process call
   getInstance, nothing constructed before. *)
InstanceThreads == {Main(0), Second(0)}

InitGetInstance ==
    /\ InitCommon /\ InitNoInstance /\ InitThreshold
    /\ size = 1

NextGetInstance == \E t \in InstanceThreads : getInstance(t)

SpecGetInstance == InitGetInstance /\ [][NextGetInstance]_vars

(* Concurrent local writers: the threads of one process, after
   setLevel(info), each write MaxCalls lines with distinct texts at levels
   that pass the filter. *)
Writers == {Main(0), Second(0)}

WriterLevel(t, k) == 1 + ((t + k) % 3)

InitWriters ==
    /\ InitCommon /\ InitInstance
    /\ size = 1
    /\ m_logstate = [p \in Procs |-> info]

WritersWrite(t) ==
    /\ Budget(t)
    /\ write_call(t, WriterLevel(t, calls[t] + 1), Msg(t, calls[t] + 1))

NextWriters ==
    \E t \in Writers :
        \/ WritersWrite(t)
        \/ write_filter(t)
        \/ write2file(t)

SpecWriters == InitWriters /\ [][NextWriters]_vars

(* The filter: threads of rank 0 and of rank 1 set the threshold and write,
   locally and through the communicator, at every level. *)
FilterThreads == {Main(0), Main(1)}

FilterBudget == SumOver(calls, FilterThreads) < MaxCalls + 2

Texts == {"", "a"}

InitFilter ==
    /\ InitCommon /\ InitInstance /\ InitThreshold
    /\ size = 2

FilterSetLevel(t) ==
    FilterBudget /\ \E lvl \in Levels : setLevel_call(t, lvl)

FilterWrite(t) ==
    FilterBudget /\ \E lvl \in Levels, val \in Texts : write_call(t, lvl, val)

FilterWriteMpi(t) ==
    FilterBudget /\ \E lvl \in Levels, val \in Texts :
                       write_mpi_call(t, lvl, val)

NextFilter ==
    \E t \in FilterThreads :
        \/ FilterSetLevel(t)
        \/ setLevel_assign(t)
        \/ FilterWrite(t)
        \/ write_filter(t)
        \/ FilterWriteMpi(t)
        \/ write_mpi_filter(t)
        \/ write_mpi_isend(t)
        \/ write2file(t)

SpecFilter == InitFilter /\ [][NextFilter]_vars

(* The distributed job as the class comment (lines 53-57) asks for it:
   every process calls startListener, writes through the communicator,
   then calls shutdownListener; here no process calls shutdownListener
   while a write of any process is still to be issued or under way. *)
JobThreads == {Main(r) : r \in Procs}

ShutdownBegun ==
    \E u \in JobThreads : op[u] = "shutdownListener" \/ barCount[rankOf(u)] >= 2

InitJob ==
    /\ InitCommon /\ InitInstance
    /\ size = MaxProcs
    /\ m_logstate \in [Procs -> {none, info}]
    /\ \A p \in Procs \ {0} : m_logstate[p] = info

JobStart(t) == calls[t] = 0 /\ startListener_call(t)

JobWrite(t) ==
    /\ calls[t] >= 1 /\ calls[t] <= MaxSends
    /\ ~ShutdownBegun
    /\ write_mpi_call(t, info, Msg(t, calls[t]))

JobShutdown(t) ==
    /\ calls[t] >= 1
    /\ barCount[rankOf(t)] = 1
    /\ \A u \in JobThreads : calls[u] >= 1 /\ op[u] \in {"none", "shutdownListener"}
    /\ shutdownListener_call(t)

Next ==
    \/ \E t \in JobThreads :
          \/ JobStart(t)
          \/ startListener(t)
          \/ JobWrite(t)
          \/ write_mpi_filter(t)
          \/ write_mpi_isend(t)
          \/ write2file(t)
          \/ JobShutdown(t)
          \/ shutdownListener(t)
    \/ \E r \in Procs : deliver(r)
    \/ \E l \in Listeners : listener(l)

Spec == InitJob /\ [][Next]_vars

(* The lifecycle calls in any order: the threads of every process of a job
   of one or more processes call startListener and shutdownListener as
   they like. *)
LifecycleThreads == {Main(r) : r \in Ranks} \cup {Second(0)}

InitLifecycle ==
    /\ InitCommon /\ InitInstance /\ InitThreshold
    /\ size \in 1 .. MaxProcs

LifecycleStart(t) == Budget(t) /\ startListener_call(t)

LifecycleShutdown(t) == Budget(t) /\ shutdownListener_call(t)

NextLifecycle ==
    \/ \E t \in LifecycleThreads :
          \/ LifecycleStart(t)
          \/ startListener(t)
          \/ LifecycleShutdown(t)
          \/ shutdownListener(t)
    \/ \E l \in Listeners :
          \/ listener_lock(l)
          \/ listener_while(l)
          \/ listener_probe(l)
          \/ listener_yield(l)
          \/ listener_exit(l)

SpecLifecycle == InitLifecycle /\ [][NextLifecycle]_vars

(* The same, with every thread that is inside shutdownListener scheduled
   again and again (the threads are operating-system threads). *)
SpecLifecycleFair ==
    SpecLifecycle /\ \A t \in Users : WF_vars(shutdownListener(t))

(* The whole interface on a job of two processes where the log file of the
   coordinator may or may not be openable: each main thread calls startListener, then makes
   MaxSends calls out of write, write through the communicator, setLevel,
   getLevel and getFilename, then calls shutdownListener, once no call of
   any process is under way. *)
SinkThreads == {Main(0), Main(1)}

InitSink ==
    /\ InitFields /\ InitInstance
    /\ fs_ok \in [Procs -> BOOLEAN]
    /\ \A p \in Procs \ {0} : fs_ok[p]
    /\ size = 2
    /\ m_logstate \in [Procs -> {warn, info}]
    /\ \A p \in Procs \ {0} : m_logstate[p] = warn

SinkUse(t) == calls[t] >= 1 /\ calls[t] <= MaxSends /\ ~ShutdownBegun

SinkStart(t) == calls[t] = 0 /\ startListener_call(t)

SinkWrite(t) ==
    SinkUse(t) /\ write_call(t, WriterLevel(t, calls[t]), Msg(t, calls[t]))

SinkWriteMpi(t) ==
    SinkUse(t) /\ write_mpi_call(t, WriterLevel(t, calls[t]), Msg(t, calls[t]))

SinkSetLevel(t) == SinkUse(t) /\ \E lvl \in {none, info} : setLevel_call(t, lvl)

SinkGetLevel(t) == SinkUse(t) /\ getLevel_call(t)

SinkGetFilename(t) == SinkUse(t) /\ getFilename_call(t)

SinkShutdown(t) ==
    /\ calls[t] >= 1
    /\ barCount[rankOf(t)] = 1
    /\ \A u \in SinkThreads :
          calls[u] >= 1 /\ op[u] \in {"none", "shutdownListener"}
    /\ shutdownListener_call(t)

NextSink ==
    \/ \E t \in SinkThreads :
          \/ SinkStart(t)
          \/ startListener(t)
          \/ SinkWrite(t)
          \/ write_filter(t)
          \/ SinkWriteMpi(t)
          \/ write_mpi_filter(t)
          \/ write_mpi_isend(t)
          \/ write2file(t)
          \/ SinkSetLevel(t)
          \/ setLevel_assign(t)
          \/ SinkGetLevel(t)
          \/ getLevel_return(t)
          \/ SinkGetFilename(t)
          \/ getFilename_return(t)
          \/ SinkShutdown(t)
          \/ shutdownListener(t)
    \/ \E r \in Procs : deliver(r)
    \/ \E l \in Listeners : listener(l)

SpecSink == InitSink /\ [][NextSink]_vars

(* Ordered sends: a job of two processes, rank 1 at threshold info and the
   coordinator at none, error or info, where the coordinator restarts its
   listener: rank 0 calls startListener, shutdownListener and
   startListener again, rank 1 answers with three calls of either, and at
   any time between these calls rank 0 writes one message through the
   communicator and rank 1 MaxSends + 1 messages, all with distinct
   texts. *)
OrderThreads == {Main(0), Main(1)}

Written(t) == calls[t] - barCount[rankOf(t)]

InitOrder ==
    /\ InitCommon /\ InitInstance
    /\ size = 2
    /\ m_logstate \in [Procs -> {none, error, info}]
    /\ \A p \in Procs \ {0} : m_logstate[p] = info

OrderStart(t) ==
    /\ IF rankOf(t) = 0 THEN barCount[0] \in {0, 2} ELSE barCount[rankOf(t)] < 3
    /\ startListener_call(t)

OrderShutdown(t) ==
    /\ IF rankOf(t) = 0 THEN barCount[0] = 1 ELSE barCount[rankOf(t)] < 3
    /\ shutdownListener_call(t)

OrderWrite(t) ==
    /\ Written(t) < (IF rankOf(t) = 0 THEN 1 ELSE MaxSends + 1)
    /\ write_mpi_call(t, info, Msg(t, calls[t] + 1))

NextOrder ==
    \/ \E t \in OrderThreads :
          \/ OrderStart(t)
          \/ startListener(t)
          \/ OrderShutdown(t)
          \/ shutdownListener(t)
          \/ OrderWrite(t)
          \/ write_mpi_filter(t)
          \/ write_mpi_isend(t)
          \/ write2file(t)
    \/ \E r \in Procs : deliver(r)
    \/ \E l \in Listeners : listener(l)

SpecOrder == InitOrder /\ [][NextOrder]_vars

(* The job of two processes from its start to its end under fair
   scheduling: each main thread calls startListener, writes MaxSends
   messages through the communicator and calls shutdownListener; every
   thread that can take a step is scheduled again and again (user and
   listener threads are operating-system threads), and a message that was
   sent arrives. *)
ShutdownStep(t) ==
    \/ SinkStart(t)
    \/ startListener(t)
    \/ SinkWriteMpi(t)
    \/ write_mpi_filter(t)
    \/ write_mpi_isend(t)
    \/ write2file(t)
    \/ SinkShutdown(t)
    \/ shutdownListener(t)

NextShutdown ==
    \/ \E t \in SinkThreads : ShutdownStep(t)
    \/ \E r \in Procs : deliver(r)
    \/ \E l \in Listeners : listener(l)

SpecShutdown ==
    /\ InitSink /\ [][NextShutdown]_vars
    /\ \A t \in SinkThreads : WF_vars(ShutdownStep(t))
    /\ \A l \in Listeners : WF_vars(listener(l))
    /\ \A r \in Procs : WF_vars(deliver(r))

(* The configuration of fresh loggers: in a job of two processes whose
   loggers were just constructed, each main thread makes MaxCalls + 1
   calls out of setLevel, getLevel, getFilename, write and startListener. *)
ConfigThreads == {Main(0), Main(1)}

ConfigBudget(t) == calls[t] < MaxCalls + 1

InitConfig ==
    /\ InitCommon /\ InitInstance /\ InitThreshold
    /\ size = 2

ConfigSetLevel(t) ==
    ConfigBudget(t) /\ \E lvl \in {none, warn, info} : setLevel_call(t, lvl)

ConfigGetLevel(t) == ConfigBudget(t) /\ getLevel_call(t)

ConfigGetFilename(t) == ConfigBudget(t) /\ getFilename_call(t)

ConfigWrite(t) == ConfigBudget(t) /\ write_call(t, warn, Msg(t, calls[t] + 1))

ConfigStart(t) == ConfigBudget(t) /\ startListener_call(t)

NextConfig ==
    \/ \E t \in ConfigThreads :
          \/ ConfigSetLevel(t)
          \/ setLevel_assign(t)
          \/ ConfigGetLevel(t)
          \/ getLevel_return(t)
          \/ ConfigGetFilename(t)
          \/ getFilename_return(t)
          \/ ConfigWrite(t)
          \/ write_filter(t)
          \/ write2file(t)
          \/ ConfigStart(t)
          \/ startListener(t)
    \/ \E l \in Listeners :
          \/ listener_lock(l)
          \/ listener_while(l)
          \/ listener_probe(l)
          \/ listener_yield(l)

SpecConfig == InitConfig /\ [][NextConfig]_vars

----------------------------------------------------------------------------
(* Claims *)

(* The truth table of the severity filter. *)
ShouldEmit(lvl, thr) == lvl # none /\ thr # none /\ lvl <= thr

InWrite2file == {"w2f_open", "w2f_put", "w2f_endl", "w2f_flush", "w2f_return"}

(* C1: a write at level L under threshold T goes on to emit its line iff
   L # None, T # None and L <= T, in the local and in the distributed
   write alike; a write that passes appends its line to the file or sends
   it to rank 0, a write that does not changes no file and sends nothing. *)
C1_FilterDecision ==
    [][\A t \in Users :
        LET r == rankOf(t)
            e == ShouldEmit(p_state[t], m_logstate[r]) IN
        /\ (pc[t] = "wr_filter" /\ pc'[t] # "wr_filter") =>
              /\ e => pc'[t] = "w2f_enter"
              /\ ~e => pc'[t] = "idle"
        /\ (pc[t] = "wm_filter" /\ pc'[t] # "wm_filter") =>
              /\ e => pc'[t] = IF r = 0 THEN "w2f_enter" ELSE "wm_isend"
              /\ ~e => pc'[t] = "idle"
        /\ (pc[t] \in {"wr_filter", "wm_filter"} /\ pc'[t] = "idle") =>
              /\ file' = file /\ m_file_buf' = m_file_buf
              /\ chan' = chan
        /\ (pc[t] = "w2f_flush" /\ pc'[t] = "w2f_return") =>
              Lines(file'[r]) = Append(Lines(file[r]), l_stream[t])
        /\ (pc[t] = "wm_isend" /\ pc'[t] = "idle") =>
              chan'[r] = Append(chan[r], l_stream[t])
    ]_vars

(* C1's case: a local write at the threshold itself has passed the filter
   and a distributed write of rank 1 has been sent. *)
C1_Witness ==
    /\ \E t \in Users : /\ op[t] = "write" /\ pc[t] = "w2f_enter"
                        /\ p_state[t] = m_logstate[rankOf(t)]
    /\ chan[1] # << >>

(* C2: while the threshold of a process is None, which it is exactly from
   a setLevel(None) to the next setLevel of another level, every write of
   that process, local or distributed, returns from the filter with the
   file, the stream and the channel unchanged. *)
C2_NoneSuppresses ==
    [][/\ \A t \in Users :
            LET r == rankOf(t) IN
            /\ (pc[t] \in {"wr_filter", "wm_filter"} /\ pc'[t] # pc[t]
                  /\ m_logstate[r] = none) =>
                  /\ pc'[t] = "idle" /\ ret'[t] = "ok"
                  /\ file' = file /\ m_file_buf' = m_file_buf
                  /\ m_file' = m_file /\ chan' = chan /\ inbox' = inbox
            /\ (pc[t] = "sl_assign" /\ pc'[t] # "sl_assign") =>
                  m_logstate'[r] = p_state[t]
       /\ \A r \in Procs :
            m_logstate'[r] # m_logstate[r] =>
               \E u \in Users : /\ rankOf(u) = r
                                /\ pc[u] = "sl_assign" /\ pc'[u] = "idle"
    ]_vars

(* C2's case: rank 0 has emitted a line, its threshold is None again (so a
   setLevel(None) came after), and a write at level info is at the
   filter. *)
C2_Witness ==
    /\ Len(Lines(file[0])) > 0
    /\ m_logstate[0] = none
    /\ \E t \in Users : /\ rankOf(t) = 0 /\ pc[t] = "wr_filter"
                        /\ p_state[t] = info

(* The line the k-th call of writer t appends. *)
WriterLine(t, k) == logformat(WriterLevel(t, k), Msg(t, k), "local - ").str

AllWritersDone == \A t \in Writers : calls[t] = MaxCalls /\ pc[t] = "idle"

(* C3: under every interleaving of the writers the file holds whole lines
   only, each the complete line of one call issued so far, none twice;
   and when every writer has returned from its last call, exactly
   K*M lines. *)
C3_CompleteLines ==
    LET ls == Lines(file[0]) IN
    /\ Unfinished(file[0]) = ""
    /\ \A i \in 1 .. Len(ls) :
          \E t \in Writers : \E k \in 1 .. calls[t] : ls[i] = WriterLine(t, k)
    /\ \A i, j \in 1 .. Len(ls) : i # j => ls[i] # ls[j]
    /\ AllWritersDone => Len(ls) = Cardinality(Writers) * MaxCalls

(* C3's case: all writers are done, and the file starts with a line of the
   second thread followed by one of the main thread. *)
C3_Witness ==
    /\ AllWritersDone
    /\ Len(Lines(file[0])) = Cardinality(Writers) * MaxCalls
    /\ Lines(file[0])[1] = WriterLine(Second(0), 1)
    /\ Lines(file[0])[2] = WriterLine(Main(0), 1)

(* C4: at most one logger is ever constructed per process, and every
   getInstance returns the same pointer. *)
C4_SingleInstance ==
    /\ \A p \in Procs : constructed[p] <= 1
    /\ \A t, u \in InstanceThreads :
          (inst[t] # NULL /\ inst[u] # NULL) => inst[t] = inst[u]

(* C10: a write of the empty string at a level that passes the filter
   never gets to the file: it never appends and flushes a line. *)
C10_EmptyIsNoop ==
    \A t \in Users :
        (op[t] = "write" /\ p_val[t] = "") => pc[t] \notin InWrite2file

(* The line the k-th write of rank r puts on the wire in the job. *)
JobLine(r, k) == logformat(info, Msg(Main(r), k), cpuPrefix(r)).str

(* shutdownListener has returned on the coordinator. *)
ShutdownReturned == pc[Main(0)] = "idle" /\ barCount[0] = 2

(* C5: when shutdownListener has returned on the coordinator, every
   message the other ranks sent (all of them before any shutdownListener)
   is a line of the coordinator's file. *)
C5_NoMessageLost ==
    ShutdownReturned =>
        \A r \in Ranks \ {0} : \A k \in 1 .. (calls[Main(r)] - 2) :
            \E i \in 1 .. Len(Lines(file[0])) : Lines(file[0])[i] = JobLine(r, k)

(* C6: shutdownListener does not return on the coordinator while a
   listener thread it spawned is alive. *)
C6_ShutdownJoins == ShutdownReturned => AliveOn(0) = {}

(* No listener thread was ever spawned on process p and its running flag
   is false. *)
NoListenerOn(p) ==
    /\ ~m_listenerrunnging[p]
    /\ \A l \in Listeners : pc[l] # "unborn" => owner[l] # p

(* C7: on a process that is not rank 0, or in a job of one process,
   startListener never gets past its test: the call enters the barrier,
   waits for it to complete and returns without an error, no listener
   thread is ever spawned there and the running flag stays false. *)
C7_StartIsNoop ==
    [][\A t \in Users :
        LET r == rankOf(t) IN
        (r \in Ranks /\ (r # 0 \/ size = 1)) =>
            /\ NoListenerOn(r) /\ NoListenerOn(r)'
            /\ op[t] = "startListener" => pc[t] \in {"st_barrier", "st_check"}
            /\ (pc[t] = "st_check" /\ pc'[t] # "st_check") =>
                  /\ ticket[t] >= 1 /\ BarrierDone(t)
                  /\ pc'[t] = "idle" /\ ret'[t] = "ok"
                  /\ UNCHANGED << lsnVars, sinkVars >>
                  /\ \A l \in Listeners : pc'[l] = pc[l]
    ]_vars

(* C7's case: rank 1 has passed the barrier of startListener and is about
   to return, while rank 0 of the same job has spawned its listener. *)
C7_Witness ==
    /\ \E t \in Users : rankOf(t) = 1 /\ pc[t] = "st_check" /\ BarrierDone(t)
    /\ AliveOn(0) # {}

(* No startListener has been called that could have started a listener:
   none is under way and no listener thread was ever spawned. *)
NeverStarted ==
    /\ \A l \in Listeners : pc[l] = "unborn"
    /\ \A u \in Users : op[u] # "startListener"

(* C9: a startListener that finds the running flag set returns without an
   error and changes no listener state, thread or file; while nothing was
   ever started, a shutdownListener is never kept waiting on the finalize
   lock by anything but another shutdownListener about to release it, and
   it returns without an error, with running false, no listener thread and
   the file unchanged; and under fair scheduling it does return once every
   process has entered the barrier. *)
C9_MisuseSafe ==
    [][\A t \in Users :
        LET r == rankOf(t) IN
        /\ (pc[t] = "st_check" /\ pc'[t] # "st_check"
               /\ m_listenerrunnging[r]) =>
              /\ pc'[t] = "idle" /\ ret'[t] = "ok"
              /\ UNCHANGED << lsnVars, sinkVars >>
              /\ \A l \in Listeners : pc'[l] = pc[l]
        /\ (NeverStarted /\ pc[t] = "sd_lock") =>
              \/ m_muxfinalize[r] = NoThread
              \/ /\ m_muxfinalize[r] \in Users
                 /\ pc[m_muxfinalize[r]] = "sd_return"
        /\ (NeverStarted /\ op[t] = "shutdownListener" /\ pc'[t] = "idle") =>
              /\ pc[t] = IF r = 0 THEN "sd_return" ELSE "sd_check"
              /\ BarrierDone(t)
              /\ ret'[t] = "ok"
              /\ ~m_listenerrunnging'[r]
              /\ \A l \in Listeners : pc'[l] = "unborn"
              /\ UNCHANGED sinkVars
    ]_vars

(* A thread is inside a shutdownListener whose barrier every process has
   entered, and nothing was ever started. *)
ShutdownPending ==
    /\ NeverStarted
    /\ \E t \in Users : /\ pc[t] \in {"sd_check", "sd_lock", "sd_return"}
                        /\ BarrierDone(t)

(* Such a shutdownListener does not wait forever. *)
C9_ShutdownReturns == []<>(~ShutdownPending)

C9_MisuseIsNoop == C9_MisuseSafe /\ C9_ShutdownReturns

(* C9's case: in a job of two processes nothing was ever started and the
   coordinator's shutdownListener has taken the finalize lock. *)
C9_Witness ==
    /\ NeverStarted /\ size = 2
    /\ \E t \in Users : rankOf(t) = 0 /\ pc[t] = "sd_return"

(* C8: at most one listener thread is alive on a process. *)
C8_OneListener == \A p \in Procs : Cardinality(AliveOn(p)) <= 1

(* C11 as stated: a write whose level is not info, warn or error ends with
   the runtime error of logformat, whatever the threshold. *)
C11_InvalidSeverity ==
    [][\A t \in Users :
        (pc[t] = "wr_filter" /\ pc'[t] # "wr_filter"
           /\ p_state[t] \notin {info, warn, error}) =>
              pc'[t] = "idle" /\ ret'[t] = "runtime"
    ]_vars

(* C11, amended: a write at level None, local or distributed, returns from
   the filter without an error, whatever the threshold, with the file, the
   stream, the writer lock and the channel unchanged; and no call of a
   write with a level of the enumeration ends with the runtime error of
   logformat. *)
C11_NoneIsSilent ==
    [][\A t \in Users :
        /\ (pc[t] \in {"wr_filter", "wm_filter"} /\ pc'[t] # pc[t]
               /\ p_state[t] = none) =>
              /\ pc'[t] = "idle" /\ ret'[t] = "ok"
              /\ UNCHANGED << sinkVars, chan, inbox, m_logstate >>
        /\ ret'[t] # "runtime"
    ]_vars

(* C11's case: a local write at level None is at the filter of a process
   whose threshold is info. *)
C11_Witness ==
    \E t \in Users : /\ pc[t] = "wr_filter" /\ p_state[t] = none
                      /\ m_logstate[rankOf(t)] = info

(* The name of a level as it stands between the brackets of a line. *)
LevelName(lvl) ==
    CASE lvl = info -> "info" [] lvl = warn -> "warn" [] lvl = error -> "error"

RECURSIVE Spaces(_)
Spaces(n) == IF n <= 0 THEN "" ELSE " " \o Spaces(n - 1)

(* The width of the column the bracketed level label is padded to. *)
LabelWidth == 13

(* The line the claim describes: one space between label and text. *)
ClaimedLine(origin, lvl, text) ==
    origin \o " - [" \o LevelName(lvl) \o "] " \o text

(* The same with the label padded with spaces to LabelWidth characters. *)
PaddedLine(origin, lvl, text) ==
    origin \o " - [" \o LevelName(lvl) \o "]"
           \o Spaces(LabelWidth - Len(LevelName(lvl)) - 2) \o text

(* The origin label of the write thread t is in. *)
Origin(t) ==
    IF op[t] = "write" THEN "local" ELSE "CPU " \o ToString(rankOf(t))

(* Every line of every file, and every message under way, is the line
   Shape gives for one of the calls made: a local line in the file of its
   own process, a "CPU r" line in the file of rank 0 (or, written by rank 0
   itself, in its own file). *)
LinesHaveShape(Shape(_, _, _)) ==
    LET Made(p) ==
            {Shape("local", WriterLevel(t, k), Msg(t, k)) :
                t \in {u \in SinkThreads : rankOf(u) = p}, k \in 1 .. MaxSends}
            \cup
            {Shape("CPU " \o ToString(rankOf(t)), WriterLevel(t, k), Msg(t, k)) :
                t \in {u \in SinkThreads : p = 0}, k \in 1 .. MaxSends}
        Sent(p) ==
            {Shape("CPU " \o ToString(p), WriterLevel(t, k), Msg(t, k)) :
                t \in {u \in SinkThreads : rankOf(u) = p}, k \in 1 .. MaxSends}
    IN  \A p \in Procs :
          /\ \A i \in 1 .. Len(Lines(file[p])) : Lines(file[p])[i] \in Made(p)
          /\ \A i \in 1 .. Len(chan[p]) : chan[p][i] \in Sent(p)
          /\ \A i \in 1 .. Len(inbox[p]) : inbox[p][i] \in Sent(p)

(* C12 as stated: every line is "<origin> - [<level>] <text>" with a single
   space between the level label and the text. *)
C12_LineShape == LinesHaveShape(ClaimedLine)

(* C12, amended: every line is "<origin> - [<level>]<padding><text>", where
   the padding fills the label up to 13 characters with spaces (7 after
   [info] and [warn], 6 after [error]); origin is "local" for the local
   write and "CPU <rank>" with the sender's rank for the distributed one,
   the level is the one passed and the text the value written. *)
C12_PaddedLineShape ==
    /\ [] LinesHaveShape(PaddedLine)
    /\ [][\A t \in Users :
            (pc[t] \in {"wr_filter", "wm_filter"} /\ pc'[t] # pc[t]
               /\ pc'[t] # "idle") =>
                  l_stream'[t] = PaddedLine(Origin(t), p_state[t], p_val[t])
       ]_vars

(* C12's case: the coordinator's file holds a local line of its own and a
   line the listener forwarded for rank 1. *)
C12_Witness ==
    LET ls == Lines(file[0]) IN
    /\ \E i \in 1 .. Len(ls) : ls[i] = PaddedLine("local", info, Msg(Main(0), 1))
    /\ \E i \in 1 .. Len(ls) : ls[i] = PaddedLine("CPU 1", error, Msg(Main(1), 1))

(* C13: a distributed write that passes the filter goes, on rank 0, to
   write2file, which appends its line to the file of rank 0, and rank 0
   never sends; on another rank it goes to isend, which queues exactly that
   one line for rank 0 and returns, the call never being inside write2file
   and the sender's file, stream and writer lock staying as they are; and
   on such a rank each step of the call can be taken whatever the other
   threads and processes do. *)
C13_DirectOrSend ==
    /\ [][\A t \in Users :
            LET r == rankOf(t) IN
            /\ (pc[t] = "wm_filter" /\ ShouldEmit(p_state[t], m_logstate[r])
                   /\ pc'[t] # "wm_filter") =>
                  /\ pc'[t] = IF r = 0 THEN "w2f_enter" ELSE "wm_isend"
                  /\ chan' = chan
            /\ (op[t] = "write_mpi" /\ r = 0 /\ pc[t] = "w2f_flush"
                   /\ pc'[t] # "w2f_flush") =>
                  Lines(file'[0]) = Append(Lines(file[0]), l_stream[t])
            /\ (pc[t] = "wm_isend" /\ pc'[t] # "wm_isend") =>
                  /\ r # 0
                  /\ chan' = [chan EXCEPT ![r] = Append(@, l_stream[t])]
                  /\ pc'[t] = "idle" /\ ret'[t] = "ok"
                  /\ UNCHANGED sinkVars
       ]_vars
    /\ [](\A t \in Users :
            /\ chan[0] = << >>
            /\ (op[t] = "write_mpi" /\ rankOf(t) # 0) =>
                  /\ pc[t] \in {"wm_filter", "wm_isend"}
                  /\ pc[t] = "wm_filter" => ENABLED write_mpi_filter(t)
                  /\ pc[t] = "wm_isend" => ENABLED write_mpi_isend(t))

(* C13's case: rank 1 has sent a line and is back from its write, with its
   own file untouched and no listener thread ever spawned, and rank 0 has
   written a line of a distributed write of its own. *)
C13_Witness ==
    /\ chan[1] # << >>
    /\ \E t \in Users : rankOf(t) = 1 /\ pc[t] = "idle" /\ ret[t] = "ok"
    /\ m_file[1] = "closed" /\ file[1] = << >>
    /\ \A l \in Listeners : pc[l] = "unborn"
    /\ \E i \in 1 .. Len(Lines(file[0])) :
          \E v \in Texts : Lines(file[0])[i] = logformat(info, v, cpuPrefix(0)).str

(* C14: a write whose write2file could not open the file does not return
   as a success. *)
C14_OpenFailureSurfaces ==
    [][\A t \in Users :
        (pc[t] = "w2f_return" /\ m_file[rankOf(t)] = "failed"
           /\ pc'[t] = "idle") => ret'[t] # "ok"
    ]_vars

(* The main thread of rank q has entered startListener, its first call in
   the job; it has entered shutdownListener. *)
StartEntered(q) == calls[Main(q)] >= 1
ShutdownEntered(q) ==
    calls[Main(q)] >= 2 /\ (op[Main(q)] = "shutdownListener" \/ barCount[q] >= 2)

(* C15: in the job, no thread returns from startListener before every
   process has entered startListener, none returns from shutdownListener
   before every process has entered shutdownListener, and a listener
   thread is spawned only when every process has entered startListener. *)
C15_Collective ==
    [][/\ \A t \in Users :
            /\ (op[t] = "startListener" /\ pc'[t] = "idle") =>
                  \A q \in Ranks : StartEntered(q)
            /\ (op[t] = "shutdownListener" /\ pc'[t] = "idle") =>
                  \A q \in Ranks : ShutdownEntered(q)
       /\ \A l \in Listeners :
            (pc[l] = "unborn" /\ pc'[l] # "unborn") =>
                  \A q \in Ranks : StartEntered(q) /\ barCount[q] >= 1
    ]_vars

(* C15's case: a listener was spawned and shutdownListener has returned on
   the coordinator, in a job of more than one process. *)
C15_Witness ==
    /\ size >= 2
    /\ ShutdownReturned
    /\ \E l \in Listeners : pc[l] # "unborn"

(* C16: a listener thread that has left its loop has seen the running flag
   false, and by then every process of the job has reached the barrier of
   shutdownListener. *)
C16_ExitAfterBarrier ==
    \A l \in Listeners :
        pc[l] \in {"ls_exit", "dead"} =>
            /\ ~m_listenerrunnging[owner[l]]
            /\ \A q \in Ranks : barCount[q] >= 2

(* C17: a listener thread gets to its yield only from a probe that found
   no message, and back to the test of the running flag only from that
   yield (the first test follows the lock); a probe that finds a message
   goes on to receive it, and after forwarding a message the thread
   probes again. *)
C17_DrainBeforeYield ==
    [][\A l \in Listeners :
        /\ (pc'[l] = "ls_yield" /\ pc[l] # "ls_yield") =>
              pc[l] = "ls_probe" /\ Pending(owner[l]) = {}
        /\ (pc'[l] = "ls_while" /\ pc[l] # "ls_while") =>
              pc[l] \in {"ls_lock", "ls_yield"}
        /\ (pc[l] = "ls_probe" /\ pc'[l] # "ls_probe"
               /\ Pending(owner[l]) # {}) => pc'[l] = "ls_recv"
        /\ (pc[l] = "ls_recv" /\ pc'[l] # "ls_recv") => pc'[l] = "w2f_enter"
        /\ (pc[l] \in {"w2f_enter", "w2f_return"}
               /\ pc'[l] \notin InWrite2file \cup {"w2f_enter"}) =>
              pc'[l] = "ls_probe"
    ]_vars

(* C17's case: the listener has forwarded the line of rank 1 and, after a
   probe that found nothing more, is at its yield. *)
C17_Witness ==
    /\ \E i \in 1 .. Len(Lines(file[0])) : Lines(file[0])[i] = JobLine(1, 1)
    /\ \E l \in Listeners : pc[l] = "ls_yield"

(* C18: a write the filter rejects, local or distributed, returns from the
   filter without an error, and neither entering the call nor the filter
   changes the file, the stream and its buffer, the writer lock, the
   threshold or the messages under way. *)
C18_RejectedChangesNothing ==
    [][\A t \in Users :
        LET r == rankOf(t) IN
        /\ (pc[t] \in {"wr_filter", "wm_filter"} /\ pc'[t] # pc[t]
               /\ ~ShouldEmit(p_state[t], m_logstate[r])) =>
              /\ pc'[t] = "idle" /\ ret'[t] = "ok"
              /\ UNCHANGED << file, m_file, m_file_buf, m_muxwriter,
                              m_logstate, chan, inbox >>
        /\ (pc[t] = "idle" /\ pc'[t] \in {"wr_filter", "wm_filter"}) =>
              UNCHANGED << file, m_file, m_file_buf, m_muxwriter,
                           m_logstate, chan, inbox >>
    ]_vars

(* C18's case: the file of rank 0 is open and holds a line, and a write at
   info is at the filter under the threshold warn. *)
C18_Witness ==
    /\ m_file[0] = "open" /\ Len(Lines(file[0])) > 0
    /\ m_logstate[0] = warn
    /\ \E t \in Users : /\ rankOf(t) = 0 /\ p_state[t] = info
                        /\ pc[t] \in {"wr_filter", "wm_filter"}

(* The threads of process p that are inside write2file past its lock. *)
Appending(p) ==
    {t \in Threads : pc[t] \in InWrite2file /\ rankOf(t) = p}

(* C19: the writer lock of a process is held only by a thread that is
   inside write2file, whether or not the file could be opened: with no
   thread inside, the lock is free and a thread arriving at write2file can
   take it. *)
C19_MutexReleased ==
    \A p \in Procs :
        /\ m_muxwriter[p] # NoThread => m_muxwriter[p] \in Appending(p)
        /\ Appending(p) = {} =>
              \A t \in Threads :
                  (pc[t] = "w2f_enter" /\ rankOf(t) = p) =>
                      ENABLED write2file_enter(t)

(* C19's case: the file of rank 0 could not be opened by the write of its
   main thread, which has returned, and the listener thread now holds the
   writer lock. *)
C19_Witness ==
    /\ m_file[0] = "failed"
    /\ pc[Main(0)] = "idle"
    /\ \E l \in Listeners : pc[l] = "w2f_open" /\ m_muxwriter[0] = l

(* C20: the stream of a process is closed until a write2file opens it: it
   is closed while no call has been made, it changes only in the open step
   of a write2file run for a write or by a listener thread, an open stream
   stays open, and a file that holds a line has its stream open; a write
   the filter rejects returns with the stream as it was. *)
C20_LazyOpenStaysOpen ==
    /\ [](\A p \in Procs :
            /\ (\A t \in Threads : calls[t] = 0) => m_file[p] = "closed"
            /\ Len(Lines(file[p])) > 0 => m_file[p] = "open")
    /\ [][/\ \A p \in Procs :
              /\ m_file[p] = "open" => m_file'[p] = "open"
              /\ m_file'[p] # m_file[p] =>
                    \E t \in Threads :
                        /\ rankOf(t) = p
                        /\ pc[t] = "w2f_open" /\ pc'[t] = "w2f_put"
                        /\ t \in Listeners \/ op[t] \in {"write", "write_mpi"}
          /\ \A t \in Users :
              /\ (op[t] \in {"setLevel", "getLevel", "getFilename",
                              "startListener", "shutdownListener"}
                     /\ pc'[t] # pc[t]) => m_file' = m_file
              /\ (pc[t] \in {"wr_filter", "wm_filter"} /\ pc'[t] # pc[t]
                     /\ ~ShouldEmit(p_state[t], m_logstate[rankOf(t)])) =>
                    m_file' = m_file /\ pc'[t] = "idle"
       ]_vars

(* C20's case: the coordinator's file holds a line and is open after its
   shutdownListener has returned, while rank 1, which has asked for its
   file name, has its own stream still closed. *)
C20_Witness ==
    /\ Len(Lines(file[0])) > 0 /\ m_file[0] = "open"
    /\ pc[Main(0)] = "idle" /\ barCount[0] = 2
    /\ m_file[1] = "closed"
    /\ \E t \in Users : rankOf(t) = 1 /\ got[t].path # ""

(* What setLevel and the getters must leave alone: the files and streams,
   the writer lock, the listener state and threads, the messages. *)
ConfigFrame ==
    /\ UNCHANGED << sinkVars, lsnVars, mpiVars >>
    /\ \A l \in Listeners : pc'[l] = pc[l]

(* C21: the threshold of a fresh logger is None and changes only when a
   setLevel assigns its argument; getLevel returns the threshold as it is
   then, so the level of the latest setLevel, or None if there was none;
   while the threshold is None a write returns from the filter with the
   file as it was; setLevel and the getters change nothing else (files,
   streams, writer lock, listener state, messages); and getFilename
   returns the one path of the process, every time. *)
C21_ThresholdOnly ==
    /\ [](/\ (\A t \in Threads : calls[t] = 0) =>
                \A p \in Procs : m_logstate[p] = none
          /\ \A t \in Users :
                got[t].path \in {"", m_filename(rankOf(t))}
          /\ \A p \in Procs : m_filename(p) # "")
    /\ [][/\ \A p \in Procs :
              m_logstate'[p] # m_logstate[p] =>
                 \E t \in Users : /\ rankOf(t) = p /\ op[t] = "setLevel"
                                   /\ pc[t] = "sl_assign" /\ pc'[t] = "idle"
          /\ \A t \in Users :
              LET r == rankOf(t) IN
              /\ (pc[t] = "sl_assign" /\ pc'[t] # "sl_assign") =>
                    /\ m_logstate' = [m_logstate EXCEPT ![r] = p_state[t]]
                    /\ pc'[t] = "idle" /\ ret'[t] = "ok"
                    /\ ConfigFrame /\ got' = got
              /\ (pc[t] = "gl_return" /\ pc'[t] # "gl_return") =>
                    /\ got'[t].level = m_logstate[r]
                    /\ got'[t].path = got[t].path
                    /\ pc'[t] = "idle" /\ ret'[t] = "ok"
                    /\ ConfigFrame /\ m_logstate' = m_logstate
              /\ (pc[t] = "gf_return" /\ pc'[t] # "gf_return") =>
                    /\ got'[t].path = m_filename(r)
                    /\ got'[t].level = got[t].level
                    /\ pc'[t] = "idle" /\ ret'[t] = "ok"
                    /\ ConfigFrame /\ m_logstate' = m_logstate
              /\ (pc[t] = "idle"
                     /\ pc'[t] \in {"sl_assign", "gl_return", "gf_return"}) =>
                    ConfigFrame /\ m_logstate' = m_logstate /\ got' = got
              /\ (pc[t] = "wr_filter" /\ pc'[t] # "wr_filter"
                     /\ m_logstate[r] = none) =>
                    pc'[t] = "idle" /\ UNCHANGED sinkVars
       ]_vars

(* C21's case: on rank 0 a setLevel(warn) let a line into the file and
   the threshold is None again (a setLevel(None) came after); on rank 1,
   which has got its file name, getLevel has returned the level info, so a
   level a setLevel had set. *)
C21_Witness ==
    /\ Len(Lines(file[0])) > 0
    /\ m_logstate[0] = none
    /\ \E t \in Users : /\ rankOf(t) = 1
                        /\ got[t].path = m_filename(1)
                        /\ got[t].level = info


----------------------------------------------------------------------------
(* The calls a thread of SpecOrder can make. *)
OrderCalls == 1 .. (MaxSends + 4)

(* The line of the k-th call of the main thread of rank r, a distributed
   write at info. *)
OrderLine == [r \in Procs |-> [k \in OrderCalls |-> JobLine(r, k)]]

(* The positions in the coordinator's file of the line of call k of the
   main thread of rank r. *)
At(r, k) ==
    {i \in 1 .. Len(Lines(file[0])) : Lines(file[0])[i] = OrderLine[r][k]}

(* C22: when two distributed writes of one process of rank r # 0, issued
   one after the other, both have their line in the coordinator's file,
   the line of the earlier write stands before the line of the later one. *)
C22_SenderOrder ==
    LET ls == Lines(file[0]) IN
    \A r \in Procs \ {0} :
        \A i \in 1 .. Len(ls), j \in 1 .. Len(ls) : i < j =>
            \A k1 \in OrderCalls, k2 \in OrderCalls :
                (ls[i] = OrderLine[r][k1] /\ ls[j] = OrderLine[r][k2])
                    => k1 <= k2

(* C22's case: two lines of rank 1 are in the file in the order they were
   written, a line of rank 0 stands between them, and the restart has
   spawned a second listener thread. *)
C22_Witness ==
    /\ \A l \in Listeners : pc[l] # "unborn"
    /\ Len(file[0]) >= 6
    /\ \E k1 \in OrderCalls, k2 \in OrderCalls, k0 \in OrderCalls :
        /\ k1 < k2
        /\ \E i \in At(1, k1), j \in At(1, k2), m \in At(0, k0) :
              i < m /\ m < j

----------------------------------------------------------------------------
(* The step that follows each position of write2file when the stream is
   written. *)
AfterW2f ==
    [w2f_enter |-> "w2f_open", w2f_open |-> "w2f_put", w2f_put |-> "w2f_endl",
     w2f_endl |-> "w2f_flush", w2f_flush |-> "w2f_return"]

(* C23: the listener hands every message it receives to write2file and
   write2file appends it as one line to the coordinator's file, whatever
   the coordinator's threshold is: no step of a listener thread between
   the receipt and the flush ends early, changes the message or the
   threshold, and the flush puts exactly the message at the end of the
   file. *)
C23_ListenerIgnoresThreshold ==
    [][\A l \in Listeners : pc'[l] # pc[l] =>
          /\ m_logstate' = m_logstate
          /\ pc[l] = "ls_recv" =>
                /\ pc'[l] = "w2f_enter"
                /\ l_stream'[l] = Head(inbox[l_status[l]])
                /\ inbox' = [inbox EXCEPT ![l_status[l]] = Tail(@)]
          /\ pc[l] \in DOMAIN AfterW2f =>
                /\ pc'[l] = AfterW2f[pc[l]]
                /\ l_stream'[l] = l_stream[l]
          /\ pc[l] = "w2f_flush" =>
                Lines(file'[0]) = Append(Lines(file[0]), l_stream[l])
          /\ pc[l] # "w2f_flush" => file' = file
      ]_vars

(* C23's case: the coordinator's threshold is error, its own write at info
   was rejected, and the file holds the lines rank 1 wrote at info. *)
C23_Witness ==
    /\ m_logstate[0] = error
    /\ Written(Main(0)) = 1 /\ pc[Main(0)] = "idle"
    /\ \A k \in OrderCalls : At(0, k) = {}
    /\ \E k1 \in OrderCalls, k2 \in OrderCalls :
          k1 < k2 /\ At(1, k1) # {} /\ At(1, k2) # {}


----------------------------------------------------------------------------
(* The lines call k of the main thread of rank r can produce: the local
   one and the distributed one. *)
SinkLines ==
    [r \in {q \in Procs : Main(q) \in SinkThreads} |-> [k \in 1 .. MaxSends |->
        {PaddedLine("local", WriterLevel(Main(r), k), Msg(Main(r), k)),
         PaddedLine("CPU " \o ToString(r), WriterLevel(Main(r), k),
                    Msg(Main(r), k))}]]

(* The calls of write made so far, by rank and number, whose line can
   stand in the file of process p: those of p itself and, on rank 0, those
   of every process. *)
MadeFor(p) ==
    {c \in (DOMAIN SinkLines) \X (1 .. MaxSends) :
        /\ calls[Main(c[1])] > c[2]
        /\ WriterLevel(Main(c[1]), c[2]) # none
        /\ c[1] = p \/ p = 0}

(* C24: every log file is a sequence of whole lines, each the line of a
   write call that was made, local or distributed, and no two of them the
   line of the same call; a step either leaves a file as it is or puts one
   line, the message of the thread that flushes, behind the lines it
   had. *)
C24_WholeLinesOnce ==
    /\ [](\A p \in Procs :
            LET ls == Lines(file[p]) IN
            /\ Unfinished(file[p]) = ""
            /\ \A i \in 1 .. Len(ls) :
                  \E c \in MadeFor(p) : ls[i] \in SinkLines[c[1]][c[2]]
            /\ \A i \in 1 .. Len(ls), j \in 1 .. Len(ls) :
                  i # j => \A c \in MadeFor(p) :
                     ~(ls[i] \in SinkLines[c[1]][c[2]]
                         /\ ls[j] \in SinkLines[c[1]][c[2]]))
    /\ [][\A p \in Procs :
            \/ file'[p] = file[p]
            \/ \E t \in Threads :
                  /\ pc[t] = "w2f_flush" /\ pc'[t] = "w2f_return"
                  /\ rankOf(t) = p
                  /\ file'[p] = file[p] \o << l_stream[t], NL >>
         ]_vars

(* C24's case: the coordinator's file holds a local line of its own and
   the line the listener forwarded for rank 1. *)
C24_Witness ==
    LET ls == Lines(file[0]) IN
    /\ Len(ls) = 2
    /\ ls[1] \in SinkLines[1][1]
    /\ ls[2] = PaddedLine("local", WriterLevel(Main(0), 1), Msg(Main(0), 1))
    /\ \A t \in Threads : pc[t] \notin DOMAIN AfterW2f


----------------------------------------------------------------------------
(* shutdownListener has returned on every process, no listener thread is
   left and every mutex of the coordinator is free. *)
JobOver ==
    /\ \A r \in Ranks : pc[Main(r)] = "idle" /\ barCount[r] = 2
    /\ \A l \in Listeners : ~Alive(l)
    /\ m_muxfinalize[0] = NoThread
    /\ m_muxlistener[0] = NoThread
    /\ m_muxwriter[0] = NoThread

(* C25: in the job where every process calls startListener, writes its
   messages and calls shutdownListener, under fair scheduling there comes
   a moment from which on shutdownListener has returned on every process,
   the listener thread has left its loop and ended, and the finalize
   lock, the listener-start lock and the writer mutex are free. *)
C25_ShutdownTerminates == <>[]JobOver

(* C25's case: the job is over, the listener thread that was spawned has
   ended and every process made all its writes. *)
C25_Witness ==
    /\ JobOver
    /\ \E l \in Listeners : pc[l] = "dead"
    /\ \A r \in Ranks : calls[Main(r)] = MaxSends + 2

====
